---- MODULE Spec2Model ----
(***************************************************************************)
(* SMS conversation-processing pipeline of sms-agent-python.               *)
(*                                                                         *)
(* The server runs every endpoint and every background unit of work as a   *)
(* coroutine of one asyncio event loop, so the code between two real       *)
(* suspension points is one atomic step.  The real suspension points of    *)
(* the pipeline are the two `async for ... in query(...)` loops of         *)
(* SMSAgent (generate_response, classify_relationship); should_auto_reply  *)
(* and the delivery callbacks of server/api.py and test_sms.py contain no  *)
(* await, and the sqlite3 calls are synchronous.                           *)
(***************************************************************************)
EXTENDS Integers, Sequences, FiniteSets, TLC

\* ------------------------------------------------------------------ bounds
\* Requests the server receives in one run: webhook posts, manual sends,
\* contact updates and conversation queries together.
MaxRequests == 3

\* Inbound messages in a run that starts from a contact already known.
MaxPolicyMessages == 2

\* ------------------------------------------------------- program constants
\* sms_processor.py:69  get_conversation_history(sms.from_number, 10)
HistoryWindow == 10
\* sms_processor.py:231  get_conversation(phone_number, limit=20)
ConversationLimit == 20
\* sms_processor.py:206  get_recent_conversations(10)
DashboardLimit == 10
\* sms_agent.py:125  len(message) < 3
MinTextLen == 3
\* sms_processor.py:188  len(context.conversation_history) >= 3
EnrichMinHistory == 3

\* Python's None.
None == "None"

Phones == {"+1234567890", "+9876543210"}

\* sms_agent.py:83,87  the canned fallback text.
CannedText == "Thanks for your message! I'll get back to you soon."
\* A text the generator returns when it succeeds.
GeneratedText == "Sure, what time?"
\* Bodies of inbound messages.
InboundTexts == {"hello there", "Hi"}
\* Bodies of manual sends.
ManualTexts == {"manual message"}
\* datetime.now() when the webhook constructs IncomingSMS: the server's wall
\* clock, which is not the clock of the store and may lag behind it.
WallClock == {0}
\* The number the operator's calls (manual send, contact update,
\* conversation query) are about, as in test_sms.py; inbound messages come
\* from every number of Phones.
OperatorPhones == {"+1234567890"}

\* ------------------------------------------------------------------ state
VARIABLES
  contacts,           \* table contacts, rows in insertion order
  messages,           \* table messages, rows in insertion order
  now,                \* the store's clock
  send_sms_callback,  \* SMSProcessor.send_sms_callback: "configured" or None
  tasks,              \* frames of the process_incoming_sms units of work, in arrival order
  sent,               \* calls the delivery callback has received, in order
  manual,             \* results of the send_manual_sms calls, in order
  puts,               \* responses of PUT /contact, in order
  convs               \* results of the get_conversation calls, in order

vars == <<contacts, messages, now, send_sms_callback, tasks, sent, manual, puts, convs>>

\* Requests received so far.
Requests == Len(tasks) + Len(manual) + Len(puts) + Len(convs)

\* ------------------------------------------------------------------ texts
\* The characters of the texts should_auto_reply inspects (a string cannot
\* be indexed in TLC, so the policy works on tuples of characters).
Chars(s) ==
  CASE s = "hello there" -> <<"h","e","l","l","o"," ","t","h","e","r","e">>
    [] s = "Hi" -> <<"H","i">>
    [] s = "please help urgent!!" -> <<"p","l","e","a","s","e"," ","h","e","l","p"," ","u","r","g","e","n","t","!","!">>
    [] s = " ok " -> <<" ","o","k"," ">>
    [] s = "my PIN?" -> <<"m","y"," ","P","I","N","?">>
    [] s = "see you soon" -> <<"s","e","e"," ","y","o","u"," ","s","o","o","n">>
    [] s = "manual message" -> <<"m","a","n","u","a","l"," ","m","e","s","s","a","g","e">>

\* str.lower() on one character.
LowerChar(c) ==
  CASE c = "H" -> "h"
    [] c = "I" -> "i"
    [] c = "N" -> "n"
    [] c = "P" -> "p"
    [] OTHER -> c

\* str.lower()
Lower(cs) == [i \in 1..Len(cs) |-> LowerChar(cs[i])]

\* str.strip(): the text from its first to its last non-blank character.
Strip(cs) ==
  LET solid == {i \in DOMAIN cs : cs[i] # " "}
  IN  IF solid = {} THEN <<>>
      ELSE SubSeq(cs, CHOOSE i \in solid : \A j \in solid : i <= j,
                      CHOOSE i \in solid : \A j \in solid : j <= i)

\* `keyword in message` on strings: substring test.
Contains(cs, kw) ==
  \E i \in 1..(Len(cs) - Len(kw) + 1) : SubSeq(cs, i, i + Len(kw) - 1) = kw

urgent_keywords ==
  << <<"u","r","g","e","n","t">>,
     <<"e","m","e","r","g","e","n","c","y">>,
     <<"i","m","p","o","r","t","a","n","t">>,
     <<"a","s","a","p">>,
     <<"h","e","l","p">>,
     <<"c","a","l","l"," ","m","e">>,
     <<"n","e","e","d"," ","y","o","u">>,
     <<"p","r","o","b","l","e","m">>,
     <<"i","s","s","u","e">>,
     <<"t","r","o","u","b","l","e">>,
     <<"h","o","s","p","i","t","a","l">>,
     <<"a","c","c","i","d","e","n","t">> >>

sensitive_keywords ==
  << <<"p","a","s","s","w","o","r","d">>,
     <<"s","s","n">>,
     <<"s","o","c","i","a","l"," ","s","e","c","u","r","i","t","y">>,
     <<"b","a","n","k">>,
     <<"c","r","e","d","i","t"," ","c","a","r","d">>,
     <<"p","i","n">>,
     <<"a","d","d","r","e","s","s">>,
     <<"p","e","r","s","o","n","a","l">>,
     <<"p","r","i","v","a","t","e">> >>

\* Python truthiness of contact.relationship (Optional[str]).
Truthy(s) == s # None /\ s # ""

\* should_auto_reply measuring the text without strip().
should_auto_reply_untrimmed(contact, incoming_message) ==
  \E message \in {Lower(Chars(incoming_message))} :
    IF Len(message) < MinTextLen THEN FALSE
    ELSE IF contact.trust_level = 0 /\ ~Truthy(contact.relationship) THEN FALSE
    ELSE IF \E k \in DOMAIN urgent_keywords : Contains(message, urgent_keywords[k])
      THEN FALSE
    ELSE IF \E k \in DOMAIN sensitive_keywords :
               Contains(message, sensitive_keywords[k])
      THEN FALSE
    ELSE TRUE

\* should_auto_reply consulting the message log besides its context.
should_auto_reply_reads_log(contact, incoming_message) ==
  \E message \in {Strip(Lower(Chars(incoming_message)))} :
    IF Len(message) < MinTextLen THEN FALSE
    ELSE IF Len(messages) > 1 THEN FALSE
    ELSE IF contact.trust_level = 0 /\ ~Truthy(contact.relationship) THEN FALSE
    ELSE IF \E k \in DOMAIN urgent_keywords : Contains(message, urgent_keywords[k])
      THEN FALSE
    ELSE IF \E k \in DOMAIN sensitive_keywords :
               Contains(message, sensitive_keywords[k])
      THEN FALSE
    ELSE TRUE

\* SMSAgent.should_auto_reply(context), with
\* message = context.incoming_message.lower().strip()
should_auto_reply(contact, incoming_message) ==
  \E message \in {Strip(Lower(Chars(incoming_message)))} :
    IF Len(message) < MinTextLen THEN FALSE
    ELSE IF contact.trust_level = 0 /\ ~Truthy(contact.relationship) THEN FALSE
    ELSE IF \E k \in DOMAIN urgent_keywords : Contains(message, urgent_keywords[k])
      THEN FALSE
    ELSE IF \E k \in DOMAIN sensitive_keywords :
               Contains(message, sensitive_keywords[k])
      THEN FALSE
    ELSE TRUE

\* ---------------------------------------------------------- ContactStore
HasContact(cs, phone_number) == \E i \in DOMAIN cs : cs[i].phone_number = phone_number

\* cursor.fetchone() of SELECT * FROM contacts WHERE phone_number = ?
FetchContact(cs, phone_number) ==
  cs[CHOOSE i \in DOMAIN cs :
       /\ cs[i].phone_number = phone_number
       /\ \A j \in DOMAIN cs : cs[j].phone_number = phone_number => i <= j]

\* The row INSERT INTO contacts (phone_number, relationship, trust_level)
\* VALUES (?, 'unknown', 0) creates; cursor.lastrowid is its id.
NewContact(cs, phone_number, ts) ==
  [id |-> Len(cs) + 1, phone_number |-> phone_number, name |-> None,
   relationship |-> "unknown", trust_level |-> 0,
   created_at |-> ts, updated_at |-> ts]

\* get_or_create_contact without the SELECT: inserts on every call.
get_or_create_contact_table_insert_always(cs, phone_number, ts) ==
  Append(cs, NewContact(cs, phone_number, ts))

\* get_or_create_contact writing the defaults over the row it found.
get_or_create_contact_table_resets(cs, phone_number, ts) ==
  IF HasContact(cs, phone_number)
  THEN [i \in 1..Len(cs) |->
          IF cs[i].phone_number = phone_number
          THEN [cs[i] EXCEPT !.relationship = "unknown", !.trust_level = 0]
          ELSE cs[i]]
  ELSE Append(cs, NewContact(cs, phone_number, ts))

\* SMSDatabase.get_or_create_contact: the table afterwards.
get_or_create_contact_table(cs, phone_number, ts) ==
  IF HasContact(cs, phone_number) THEN cs
  ELSE Append(cs, NewContact(cs, phone_number, ts))

\* get_or_create_contact returning a fresh Contact although the row exists.
get_or_create_contact_ignores_row(cs, phone_number, ts) ==
  NewContact(cs, phone_number, ts)

\* SMSDatabase.get_or_create_contact: the Contact returned.
get_or_create_contact(cs, phone_number, ts) ==
  IF HasContact(cs, phone_number) THEN FetchContact(cs, phone_number)
  ELSE NewContact(cs, phone_number, ts)

\* Columns update_contact refuses to set.
ProtectedColumns == {"id", "phone_number", "created_at"}

\* SMSDatabase.update_contact(phone_number, **updates): the table afterwards.
\* `updates` is the keyword dictionary, a record of the provided columns.
update_contact(cs, phone_number, updates, ts) ==
  LET fields == (DOMAIN updates) \ ProtectedColumns
  IN  IF fields = {} THEN cs
      ELSE [i \in DOMAIN cs |->
              IF cs[i].phone_number = phone_number
              THEN [c \in DOMAIN cs[i] |->
                      IF c \in fields THEN updates[c]
                      ELSE IF c = "updated_at" THEN ts
                      ELSE cs[i][c]]
              ELSE cs[i]]

\* ------------------------------------------------------------ MessageLog
\* Message(...) with the is_auto_reply flag set on every row.
Message_flagged(contact_id, phone_number, message_text, direction, is_auto_reply) ==
  [id |-> None, contact_id |-> contact_id, phone_number |-> phone_number,
   message_text |-> message_text, direction |-> direction,
   timestamp |-> None, is_auto_reply |-> TRUE]

\* Message(...) as the pipeline builds it (id and timestamp left at None).
Message(contact_id, phone_number, message_text, direction, is_auto_reply) ==
  [id |-> None, contact_id |-> contact_id, phone_number |-> phone_number,
   message_text |-> message_text, direction |-> direction,
   timestamp |-> None, is_auto_reply |-> is_auto_reply]

\* The ordering timestamp the log gives a row at commit time.
CommitTimestamp(ts) == ts

\* A store clock too coarse to tell two commits apart.
ClockAfterCommit_same_reading(ts) == ts

\* The store's clock after a commit: the next commit gets a later timestamp.
ClockAfterCommit(ts) == ts + 1

\* save_message whose INSERT is lost.
save_message_lost(ms, message, ts) == ms

\* save_message as INSERT OR REPLACE keyed by the phone number: the new row
\* takes the place of the number's latest row.
save_message_replaces(ms, message, ts) ==
  LET row == [id |-> Len(ms) + 1, contact_id |-> message.contact_id,
              phone_number |-> message.phone_number,
              message_text |-> message.message_text,
              direction |-> message.direction,
              timestamp |-> CommitTimestamp(ts),
              is_auto_reply |-> message.is_auto_reply]
      same == {k \in 1..Len(ms) : ms[k].phone_number = message.phone_number}
  IN  IF same = {} THEN Append(ms, row)
      ELSE LET last == CHOOSE k \in same : \A j \in same : j <= k
           IN  Append([ms EXCEPT ![last].message_text = "", ![last].is_auto_reply = FALSE],
                      row)

\* save_message that stores an automated reply twice.
save_message_duplicates_reply(ms, message, ts) ==
  LET row(n) == [id |-> n, contact_id |-> message.contact_id,
                 phone_number |-> message.phone_number,
                 message_text |-> message.message_text,
                 direction |-> message.direction,
                 timestamp |-> CommitTimestamp(ts),
                 is_auto_reply |-> message.is_auto_reply]
  IN  IF message.is_auto_reply
      THEN Append(Append(ms, row(Len(ms) + 1)), row(Len(ms) + 2))
      ELSE Append(ms, row(Len(ms) + 1))

\* SMSDatabase.save_message: the table afterwards; cursor.lastrowid = Len + 1.
save_message(ms, message, ts) ==
  Append(ms, [id |-> Len(ms) + 1, contact_id |-> message.contact_id,
              phone_number |-> message.phone_number,
              message_text |-> message.message_text,
              direction |-> message.direction,
              timestamp |-> CommitTimestamp(ts),
              is_auto_reply |-> message.is_auto_reply])

\* The message id save_message returns.
lastrowid(ms) == Len(ms)

\* WHERE phone_number = ?: the rows of one number, in table order.
RowsOf(ms, phone_number) ==
  SelectSeq(ms, LAMBDA row : row.phone_number = phone_number)

\* ORDER BY timestamp DESC: a row's place is one more than the number of
\* rows that sort before it (a later timestamp; among equal timestamps the
\* earlier row of the table).
OrderByTimestampDesc(rows) ==
  LET n == Len(rows)
      before == SubSeq([i \in 1..n |->
                          Cardinality({j \in 1..n :
                            \/ rows[j].timestamp > rows[i].timestamp
                            \/ rows[j].timestamp = rows[i].timestamp /\ j < i})],
                       1, n)
  IN  [k \in 1..n |-> rows[CHOOSE i \in 1..n : before[i] = k - 1]]

\* get_conversation_history with ORDER BY timestamp ASC.
get_conversation_history_asc(ms, phone_number, limit) ==
  LET sorted == OrderByTimestampDesc(RowsOf(ms, phone_number))
      asc == [i \in 1..Len(sorted) |-> sorted[Len(sorted) + 1 - i]]
  IN  SubSeq(asc, 1, IF Len(asc) < limit THEN Len(asc) ELSE limit)

\* get_conversation_history without the LIMIT clause.
get_conversation_history_unlimited(ms, phone_number, limit) ==
  LET sorted == OrderByTimestampDesc(RowsOf(ms, phone_number))
  IN  SubSeq(sorted, 1, Len(sorted))

\* get_conversation_history without the WHERE clause.
get_conversation_history_any_number(ms, phone_number, limit) ==
  LET sorted == OrderByTimestampDesc(ms)
  IN  SubSeq(sorted, 1, IF Len(sorted) < limit THEN Len(sorted) ELSE limit)

\* SMSDatabase.get_conversation_history(phone_number, limit)
get_conversation_history(ms, phone_number, limit) ==
  LET sorted == OrderByTimestampDesc(RowsOf(ms, phone_number))
  IN  SubSeq(sorted, 1, IF Len(sorted) < limit THEN Len(sorted) ELSE limit)

Reverse(s) == [i \in 1..Len(s) |-> s[Len(s) + 1 - i]]

\* The join of get_recent_conversations without its WHERE clause: every row
\* of the number stands for m.
LatestRows_all(ms, phone_number) ==
  {i \in DOMAIN ms : ms[i].phone_number = phone_number}

\* WHERE m.timestamp = (SELECT MAX(timestamp) FROM messages m3
\*                      WHERE m3.phone_number = m.phone_number):
\* the rows m of a number that carry its greatest timestamp.
LatestRows(ms, phone_number) ==
  {i \in DOMAIN ms :
     /\ ms[i].phone_number = phone_number
     /\ \A j \in DOMAIN ms :
          ms[j].phone_number = phone_number => ms[j].timestamp <= ms[i].timestamp}

\* One group of GROUP BY m.phone_number.  The joined rows of the group are
\* the triples (m, c, m2): m a row of LatestRows, c a contact of the number
\* (NULL when there is none), m2 any row of the number; COUNT(m2.id) counts
\* them.  The bare columns come from a row m of the group, which is the
\* single latest row whenever the timestamps of the number are distinct.
ConversationSummary(ms, cs, phone_number) ==
  LET latest == LatestRows(ms, phone_number)
      m == ms[CHOOSE i \in latest : \A j \in latest : i <= j]
      owners == {i \in DOMAIN cs : cs[i].phone_number = phone_number}
      m2 == {i \in DOMAIN ms : ms[i].phone_number = phone_number}
  IN  [phone_number |-> phone_number,
       contact_name |-> IF owners = {} THEN None
                        ELSE cs[CHOOSE i \in owners : \A j \in owners : i <= j].name,
       last_message |-> m.message_text,
       timestamp |-> m.timestamp,
       message_count |-> Cardinality(latest)
                           * (IF owners = {} THEN 1 ELSE Cardinality(owners))
                           * Cardinality(m2)]

\* SMSDatabase.get_recent_conversations(limit):
\* GROUP BY m.phone_number ORDER BY m.timestamp DESC LIMIT ?
get_recent_conversations(ms, cs, limit) ==
  LET numbers == {ms[i].phone_number : i \in DOMAIN ms}
      groups == {ConversationSummary(ms, cs, p) : p \in {q \in numbers : LatestRows(ms, q) # {}}}
      n == Cardinality(groups)
      sorted == [k \in 1..n |->
                   CHOOSE g \in groups :
                     Cardinality({h \in groups :
                       \/ h.timestamp > g.timestamp
                       \/ h.timestamp = g.timestamp /\ h.phone_number # g.phone_number
                          /\ (CHOOSE i \in DOMAIN ms : ms[i].phone_number = h.phone_number)
                             < (CHOOSE i \in DOMAIN ms : ms[i].phone_number = g.phone_number)})
                     = k - 1]
  IN  SubSeq(sorted, 1, IF n < limit THEN n ELSE limit)

\* SMSDatabase.get_stats()
get_stats(ms, cs) ==
  [total_contacts |-> Len(cs),
   total_messages |-> Len(ms),
   auto_replies_sent |-> Cardinality({i \in DOMAIN ms : ms[i].is_auto_reply})]

\* ------------------------------------------------------------ SMSAgent
\* What the awaited query() of generate_response yields: a text, no
\* assistant text, or an exception.
GeneratorOutcomes == {"text", "empty", "error"}

\* generate_response without its fallback: no text when the query fails or
\* yields none.
generate_response_no_fallback(outcome) ==
  IF outcome = "text" THEN GeneratedText ELSE None

\* SMSAgent.generate_response: `response or canned`, and canned on any error.
generate_response(outcome) ==
  IF outcome = "text" THEN GeneratedText ELSE CannedText

\* What the awaited query() of classify_relationship yields: a raw answer,
\* or an exception.
ClassifierOutcomes == {"Friend", "unknown", "maybe", "error"}

RelationshipLabels == {"family", "friend", "work", "unknown"}

\* response.lower() on the classifier's raw answers.
LowerLabel(s) == IF s = "Friend" THEN "friend" ELSE s

\* classify_relationship returning whatever word the query yielded.
classify_relationship_any_word(contact, conversation_history, outcome) ==
  IF contact.relationship # "unknown" THEN contact.relationship
  ELSE IF Len(conversation_history) < EnrichMinHistory THEN None
  ELSE IF outcome = "error" THEN None
  ELSE LowerLabel(outcome)

\* SMSAgent.classify_relationship(context), the query having yielded `outcome`.
classify_relationship(contact, conversation_history, outcome) ==
  IF contact.relationship # "unknown" THEN contact.relationship
  ELSE IF Len(conversation_history) < EnrichMinHistory THEN None
  ELSE IF outcome = "error" THEN None
  ELSE IF LowerLabel(outcome) \in RelationshipLabels THEN LowerLabel(outcome)
  ELSE None

\* ------------------------------------------------------- units of work
NoContact ==
  [id |-> 0, phone_number |-> None, name |-> None, relationship |-> None,
   trust_level |-> 0, created_at |-> 0, updated_at |-> 0]

NoResult == [pending |-> TRUE]

\* The frame of a process_incoming_sms coroutine that has not started; its
\* argument is IncomingSMS(from_number, body), whose timestamp is the wall
\* clock reading at construction.
NewFrame(from_number, body, timestamp) ==
  [from_number |-> from_number, body |-> body, timestamp |-> timestamp,
   pc |-> "scheduled",
   contact |-> NoContact, message_id |-> 0, conversation_history |-> <<>>,
   should_reply |-> FALSE, response_text |-> None, result |-> NoResult]

\* The guard of _update_contact_info: classify only an unknown relationship
\* with enough history (both read from the context built at the start).
EnrichmentDue(f) ==
  /\ f.contact.relationship = "unknown"
  /\ Len(f.conversation_history) >= EnrichMinHistory

\* A pipeline that calls the generator whatever the decision was.
AfterPrimary_generates(f) == [f EXCEPT !.pc = "generating"]

\* The frame once the primary path is over: suspended in
\* classify_relationship, or returned.
AfterPrimary(f) ==
  IF EnrichmentDue(f) THEN [f EXCEPT !.pc = "classifying"]
  ELSE [f EXCEPT !.pc = "done"]

\* An enrichment step whose failure reaches the result of the run.
AfterEnrichment_propagates(f) ==
  [f EXCEPT !.pc = "done",
            !.result = [error |-> "enrichment failed", auto_reply_sent |-> FALSE]]

\* The frame once _update_contact_info is over (it swallows every error):
\* process_incoming_sms returns the result it had built.
AfterEnrichment(f) == [f EXCEPT !.pc = "done"]

\* An except branch that reports a reply although none was sent.
ErrorResult_reports_reply(error) == [error |-> error, auto_reply_sent |-> TRUE]

\* A result that reports the reply as sent but not its text.
ReplyResult_without_text(result, response_text) ==
  [result EXCEPT !.auto_reply_sent = TRUE]

\* The result once the reply is delivered and saved.
ReplyResult(result, response_text) ==
  [result EXCEPT !.auto_reply_sent = TRUE, !.response_text = response_text]

\* A pipeline that delivers and logs whether or not a callback is set.
WillSend_without_callback(callback, response_text) == Truthy(response_text)

\* `if self.send_sms_callback and response_text:`
WillSend(callback, response_text) == callback # None /\ Truthy(response_text)

\* The dictionary the except branch of process_incoming_sms returns.
ErrorResult(error) == [error |-> error, auto_reply_sent |-> FALSE]

\* _send_sms_safely swallowing the callback's exception.
send_sms_safely_swallows(snt, to_number, body, raised) ==
  [sent |-> Append(snt, [to_number |-> to_number, body |-> body, raised |-> raised]),
   raised |-> FALSE]

\* _send_sms_safely invoking the callback a second time.
send_sms_safely_twice(snt, to_number, body, raised) ==
  [sent |-> snt \o << [to_number |-> to_number, body |-> body, raised |-> raised],
                      [to_number |-> to_number, body |-> body, raised |-> raised] >>,
   raised |-> raised]

\* _send_sms_safely that returns without invoking the callback.
send_sms_safely_skipped(snt, to_number, body, raised) ==
  [sent |-> snt, raised |-> FALSE]

\* _send_sms_safely: the callback receives OutgoingSMS(to_number, body);
\* when it raises, the error is logged and raised again to the caller.
send_sms_safely(snt, to_number, body, raised) ==
  [sent |-> Append(snt, [to_number |-> to_number, body |-> body, raised |-> raised]),
   raised |-> raised]

\* One worker for all numbers: a run starts only when every earlier run has
\* returned.
MayStart_one_at_a_time(ts, t) == \A u \in 1..(t - 1) : ts[u].pc = "done"

\* A per-number exclusion that a run ending in the except branch keeps.
MayStart_held_after_failure(ts, t) ==
  \A u \in 1..(t - 1) :
    /\ ts[u].pc # "scheduled"
    /\ ts[u].from_number = ts[t].from_number => "error" \notin DOMAIN ts[u].result

\* Background tasks start in the order they were scheduled; a started task
\* that is suspended does not hold back the next one.
MayStart(ts, t) == \A u \in 1..(t - 1) : ts[u].pc # "scheduled"

Init ==
  /\ contacts = <<>>
  /\ messages = <<>>
  /\ now = 1
  /\ send_sms_callback \in {"configured", None}
  /\ tasks = <<>>
  /\ sent = <<>>
  /\ manual = <<>>
  /\ puts = <<>>
  /\ convs = <<>>

\* Senders and bodies of webhook requests; "" is a missing field
\* (WebhookSMS.from_number / message_body fall back to "").
WebhookSenders == Phones \cup {""}
WebhookBodies == InboundTexts \cup {""}

\* A webhook that schedules work whatever the fields hold.
MissingFields_ignored(from_number, body) == FALSE

\* `if not from_number or not message_body`: the request is answered 400.
MissingFields(from_number, body) == from_number = "" \/ body = ""

\* POST /webhook/sms: reject a request with a missing field; otherwise
\* schedule one background unit of work and return.
sms_webhook(from_number, body) ==
  IF MissingFields(from_number, body)
  THEN UNCHANGED vars
  ELSE /\ Requests < MaxRequests
       /\ \E timestamp \in WallClock :
            tasks' = Append(tasks, NewFrame(from_number, body, timestamp))
       /\ UNCHANGED <<contacts, messages, now, send_sms_callback, sent, manual, puts, convs>>

\* process_incoming_sms from its start to its first suspension: contact,
\* incoming row, history, decision; then the generator call, or (no reply)
\* the enrichment step.  Background tasks start in the order scheduled.
process_incoming_sms(t) ==
  /\ t \in DOMAIN tasks
  /\ tasks[t].pc = "scheduled"
  /\ MayStart(tasks, t)
  /\ LET f == tasks[t]
         created == ~HasContact(contacts, f.from_number)
         contact == get_or_create_contact(contacts, f.from_number, now)
         t1 == IF created THEN ClockAfterCommit(now) ELSE now
         ms1 == save_message(messages,
                  Message(contact.id, f.from_number, f.body, "incoming", FALSE), t1)
         history == get_conversation_history(ms1, f.from_number, HistoryWindow)
         should_reply == should_auto_reply(contact, f.body)
         f1 == [f EXCEPT !.contact = contact,
                         !.message_id = lastrowid(ms1),
                         !.conversation_history = history,
                         !.should_reply = should_reply,
                         !.result = [message_id |-> lastrowid(ms1),
                                     contact_id |-> contact.id,
                                     auto_reply_sent |-> FALSE,
                                     response_text |-> None,
                                     should_reply |-> should_reply]]
     IN  /\ contacts' = get_or_create_contact_table(contacts, f.from_number, now)
         /\ messages' = ms1
         /\ now' = ClockAfterCommit(t1)
         /\ tasks' = [tasks EXCEPT ![t] =
                        IF should_reply THEN [f1 EXCEPT !.pc = "generating"]
                        ELSE AfterPrimary(f1)]
  /\ UNCHANGED <<send_sms_callback, sent, manual, puts, convs>>

\* generate_response returns: deliver, persist the reply, fill the result;
\* then the enrichment step.  A raising callback ends in the except branch.
generate_response_returns(t, outcome, raised) ==
  /\ t \in DOMAIN tasks
  /\ tasks[t].pc = "generating"
  /\ send_sms_callback = None => ~raised
  /\ LET f == tasks[t]
         response_text == generate_response(outcome)
         f1 == [f EXCEPT !.response_text = response_text]
         delivery == send_sms_safely(sent, f.from_number, response_text, raised)
     IN  IF WillSend(send_sms_callback, response_text)
         THEN /\ sent' = delivery.sent
              /\ IF delivery.raised
                 THEN /\ tasks' = [tasks EXCEPT ![t] =
                                     [f1 EXCEPT !.pc = "done",
                                                !.result = ErrorResult("delivery failed")]]
                      /\ UNCHANGED <<messages, now>>
                 ELSE /\ messages' = save_message(messages,
                                       Message(f.contact.id, f.from_number, response_text,
                                               "outgoing", TRUE), now)
                      /\ now' = ClockAfterCommit(now)
                      /\ tasks' = [tasks EXCEPT ![t] =
                                     AfterPrimary([f1 EXCEPT !.result =
                                       ReplyResult(f1.result, response_text)])]
         ELSE /\ tasks' = [tasks EXCEPT ![t] =
                             AfterPrimary([f1 EXCEPT !.result.response_text = response_text])]
              /\ UNCHANGED <<messages, now, sent>>
  /\ UNCHANGED <<contacts, send_sms_callback, manual, puts, convs>>

\* classify_relationship returns: _update_contact_info stores a label other
\* than 'unknown'; every error is swallowed; the result is returned.
classify_relationship_returns(t, outcome) ==
  /\ t \in DOMAIN tasks
  /\ tasks[t].pc = "classifying"
  /\ LET f == tasks[t]
         relationship == classify_relationship(f.contact, f.conversation_history, outcome)
     IN  IF Truthy(relationship) /\ relationship # "unknown"
         THEN /\ contacts' = update_contact(contacts, f.contact.phone_number,
                                            [relationship |-> relationship], now)
              /\ now' = ClockAfterCommit(now)
         ELSE UNCHANGED <<contacts, now>>
  /\ tasks' = [tasks EXCEPT ![t] = AfterEnrichment(tasks[t])]
  /\ UNCHANGED <<messages, send_sms_callback, sent, manual, puts, convs>>

\* The awaited query() never yields: the coroutine stays suspended (neither
\* generate_response nor classify_relationship sets a timeout).
query_hangs(t) ==
  /\ t \in DOMAIN tasks
  /\ tasks[t].pc \in {"generating", "classifying"}
  /\ tasks' = [tasks EXCEPT ![t].pc =
                 IF tasks[t].pc = "generating" THEN "hung_generating"
                 ELSE "hung_classifying"]
  /\ UNCHANGED <<contacts, messages, now, send_sms_callback, sent, manual, puts, convs>>

\* A manual send logged as if it were an auto-reply.
ManualMessage_as_auto_reply(contact, to_number, message) ==
  Message(contact.id, to_number, message, "outgoing", TRUE)

\* The Message send_manual_sms saves after the delivery.
ManualMessage(contact, to_number, message) ==
  Message(contact.id, to_number, message, "outgoing", FALSE)

\* SMSProcessor.send_manual_sms (POST /send): no suspension inside.
send_manual_sms(to_number, message, raised) ==
  /\ Requests < MaxRequests
  /\ send_sms_callback = None => ~raised
  /\ LET created == ~HasContact(contacts, to_number)
         contact == get_or_create_contact(contacts, to_number, now)
         t1 == IF created THEN ClockAfterCommit(now) ELSE now
         call == [to_number |-> to_number, message |-> message]
         delivery == send_sms_safely(sent, to_number, message, raised)
     IN  /\ contacts' = get_or_create_contact_table(contacts, to_number, now)
         /\ IF send_sms_callback # None
            THEN /\ sent' = delivery.sent
                 /\ IF delivery.raised
                    THEN /\ manual' = Append(manual, [call |-> call, result |->
                                        [success |-> FALSE, error |-> "delivery failed"]])
                         /\ messages' = messages
                         /\ now' = t1
                    ELSE /\ messages' = save_message(messages,
                                          ManualMessage(contact, to_number, message), t1)
                         /\ now' = ClockAfterCommit(t1)
                         /\ manual' = Append(manual, [call |-> call, result |->
                                        [success |-> TRUE,
                                         message_id |-> lastrowid(messages'),
                                         contact_id |-> contact.id]])
            ELSE /\ manual' = Append(manual, [call |-> call, result |->
                                [success |-> FALSE,
                                 error |-> "No SMS sending callback configured"]])
                 /\ messages' = messages
                 /\ now' = t1
                 /\ sent' = sent
  /\ UNCHANGED <<send_sms_callback, tasks, puts, convs>>

\* Bodies of PUT /contact after the None values are filtered out.
ContactUpdates ==
  { [relationship |-> "family", trust_level |-> 2] }

\* PUT /contact (server/api.py update_contact): always answers "updated".
update_contact_endpoint(phone_number, updates) ==
  /\ Requests < MaxRequests
  /\ IF DOMAIN updates # {}
     THEN /\ contacts' = update_contact(contacts, phone_number, updates, now)
          /\ now' = ClockAfterCommit(now)
     ELSE UNCHANGED <<contacts, now>>
  /\ puts' = Append(puts, [phone_number |-> phone_number, updates |-> updates,
                           status |-> "updated"])
  /\ UNCHANGED <<messages, send_sms_callback, tasks, sent, manual, convs>>

\* phone_number.replace("%2B", "+") of GET /conversation/{phone_number}.
CleanPhone(path) ==
  CASE path = "%2B1234567890" -> "+1234567890"
    [] OTHER -> path

ConversationPaths == {"%2B1234567890"}

\* SMSProcessor.get_conversation(phone_number, limit): the dictionary returned.
get_conversation_result(contact, history) ==
  [contact |-> [id |-> contact.id, phone_number |-> contact.phone_number,
                name |-> contact.name, relationship |-> contact.relationship,
                trust_level |-> contact.trust_level],
   messages |-> [i \in 1..Len(history) |->
                   [id |-> history[i].id, text |-> history[i].message_text,
                    direction |-> history[i].direction,
                    timestamp |-> history[i].timestamp,
                    is_auto_reply |-> history[i].is_auto_reply]]]

\* GET /conversation/{phone_number}: get_or_create_contact, then the history.
get_conversation(path) ==
  /\ Requests < MaxRequests
  /\ LET phone_number == CleanPhone(path)
         created == ~HasContact(contacts, phone_number)
         contact == get_or_create_contact(contacts, phone_number, now)
     IN  /\ contacts' = get_or_create_contact_table(contacts, phone_number, now)
         /\ now' = IF created THEN ClockAfterCommit(now) ELSE now
         /\ convs' = Append(convs,
                       [phone_number |-> phone_number,
                        result |-> get_conversation_result(contact,
                          get_conversation_history(messages, phone_number,
                                                   ConversationLimit))])
  /\ UNCHANGED <<messages, send_sms_callback, tasks, sent, manual, puts>>

\* SMSProcessor.get_dashboard_data (GET /dashboard): the dictionary returned.
get_dashboard_data_result(ms, cs) ==
  [recent_conversations |-> get_recent_conversations(ms, cs, DashboardLimit),
   stats |-> get_stats(ms, cs)]

\* GET /dashboard: two reads of the store; nothing is written and no
\* contact is created.
get_dashboard_data ==
  UNCHANGED vars

Next ==
  \/ \E p \in Phones, b \in InboundTexts : sms_webhook(p, b)
  \/ \E t \in 1..MaxRequests : process_incoming_sms(t)
  \/ \E t \in 1..MaxRequests, o \in GeneratorOutcomes, r \in BOOLEAN :
       generate_response_returns(t, o, r)
  \/ \E t \in 1..MaxRequests, o \in ClassifierOutcomes : classify_relationship_returns(t, o)
  \/ \E p \in OperatorPhones, m \in ManualTexts, r \in BOOLEAN : send_manual_sms(p, m, r)
  \/ \E p \in OperatorPhones, u \in ContactUpdates : update_contact_endpoint(p, u)
  \/ \E path \in ConversationPaths : get_conversation(path)
  \/ get_dashboard_data

Spec == Init /\ [][Next]_vars

\* The same program with webhook requests that lack a sender or a body.
IntakeNext ==
  \/ Next
  \/ \E p \in WebhookSenders, b \in WebhookBodies : sms_webhook(p, b)

IntakeSpec == Init /\ [][IntakeNext]_vars

\* The same program with an AI capability whose query() may hang.
HangNext ==
  \/ Next
  \/ \E t \in 1..MaxRequests : query_hangs(t)

\* The event loop runs every ready coroutine, and a query() that yields is
\* resumed; a query() that hangs (query_hangs) is not.
FairSpec ==
  /\ Init /\ [][HangNext]_vars
  /\ \A t \in 1..MaxRequests :
       /\ WF_vars(process_incoming_sms(t))
       /\ WF_vars(\E o \in GeneratorOutcomes, r \in BOOLEAN :
                    generate_response_returns(t, o, r))
       /\ WF_vars(\E o \in ClassifierOutcomes : classify_relationship_returns(t, o))

\* The calls of the store process_incoming_sms makes before the decision.
StoreCalls == {"get_or_create_contact", "save_message"}

\* process_incoming_sms when a call of the store raises (sqlite3 error)
\* before the decision: the except branch logs it and returns the error
\* dictionary.  A contact that get_or_create_contact had already committed
\* stays in the store.
process_incoming_sms_fails(t, failed_call) ==
  /\ t \in DOMAIN tasks
  /\ tasks[t].pc = "scheduled"
  /\ MayStart(tasks, t)
  /\ LET f == tasks[t]
         created == ~HasContact(contacts, f.from_number)
     IN  /\ IF failed_call = "save_message"
            THEN /\ contacts' = get_or_create_contact_table(contacts, f.from_number, now)
                 /\ now' = IF created THEN ClockAfterCommit(now) ELSE now
                 /\ tasks' = [tasks EXCEPT ![t] =
                                [f EXCEPT !.pc = "done",
                                          !.contact = get_or_create_contact(contacts,
                                                        f.from_number, now),
                                          !.result = ErrorResult("save_message failed")]]
            ELSE /\ UNCHANGED <<contacts, now>>
                 /\ tasks' = [tasks EXCEPT ![t] =
                                [f EXCEPT !.pc = "done",
                                          !.result = ErrorResult("get_or_create_contact failed")]]
  /\ UNCHANGED <<messages, send_sms_callback, sent, manual, puts, convs>>

\* classify_relationship returns a label to store and update_contact raises:
\* _update_contact_info logs the error and returns.
update_contact_fails(t, outcome) ==
  /\ t \in DOMAIN tasks
  /\ tasks[t].pc = "classifying"
  /\ LET relationship == classify_relationship(tasks[t].contact,
                            tasks[t].conversation_history, outcome)
     IN  Truthy(relationship) /\ relationship # "unknown"
  /\ tasks' = [tasks EXCEPT ![t] = AfterEnrichment(tasks[t])]
  /\ UNCHANGED <<contacts, messages, now, send_sms_callback, sent, manual, puts, convs>>

\* The same program over a store whose calls may fail.
FaultNext ==
  \/ Next
  \/ \E t \in 1..MaxRequests, c \in StoreCalls : process_incoming_sms_fails(t, c)
  \/ \E t \in 1..MaxRequests, o \in ClassifierOutcomes : update_contact_fails(t, o)

FaultSpec == Init /\ [][FaultNext]_vars

\* Texts the decision policy is exercised with.
PolicyTexts ==
  {"hello there", "Hi", "please help urgent!!", " ok ", "my PIN?", "see you soon"}

\* Contacts the store can hold for a number: created by get_or_create_contact
\* and changed through PUT /contact.
PolicyContacts ==
  {[id |-> 1, phone_number |-> p, name |-> None, relationship |-> r,
    trust_level |-> l, created_at |-> 0, updated_at |-> 0] :
     p \in OperatorPhones, r \in RelationshipLabels, l \in 0..3}

\* The server with one contact already in the store.
PolicyInit ==
  /\ \E c \in PolicyContacts : contacts = <<c>>
  /\ messages = <<>>
  /\ now = 1
  /\ send_sms_callback = "configured"
  /\ tasks = <<>>
  /\ sent = <<>>
  /\ manual = <<>>
  /\ puts = <<>>
  /\ convs = <<>>

\* Inbound messages of that contact, with every text of PolicyTexts.
PolicyNext ==
  \/ \E p \in OperatorPhones, b \in PolicyTexts :
       Len(tasks) < MaxPolicyMessages /\ sms_webhook(p, b)
  \/ \E t \in 1..MaxPolicyMessages : process_incoming_sms(t)
  \/ \E t \in 1..MaxPolicyMessages, o \in GeneratorOutcomes, r \in BOOLEAN :
       generate_response_returns(t, o, r)
  \/ \E t \in 1..MaxPolicyMessages, o \in ClassifierOutcomes :
       classify_relationship_returns(t, o)

PolicySpec == PolicyInit /\ [][PolicyNext]_vars

\* Requests of the operator in the runs of OperatorSpec.
MaxOperatorRequests == 2

\* Texts the operator sends by hand, an urgent and a sensitive one included.
OperatorTexts == {"manual message", "please help urgent!!", "my PIN?"}

\* Bodies of PUT /contact after the None values are filtered out: two
\* fields, one field, a lower trust level, and no field at all.
OperatorUpdates ==
  {[relationship |-> "family", trust_level |-> 2],
   [name |-> "Ann"],
   [trust_level |-> 0],
   [c \in {} |-> None]}

\* The operator's endpoints over a store that holds one contact of any
\* relationship and trust level (PolicyInit).
OperatorNext ==
  \/ \E p \in Phones, m \in OperatorTexts, r \in BOOLEAN :
       Requests < MaxOperatorRequests /\ send_manual_sms(p, m, r)
  \/ \E p \in Phones, u \in OperatorUpdates :
       Requests < MaxOperatorRequests /\ update_contact_endpoint(p, u)
  \/ \E path \in ConversationPaths :
       Requests < MaxOperatorRequests /\ get_conversation(path)
  \/ get_dashboard_data

OperatorSpec == PolicyInit /\ [][OperatorNext]_vars

\* Inbound messages in the runs of WindowSpec.
MaxWindowMessages == 2

\* Lengths of the conversation the store already holds in WindowSpec: one
\* row short of the window, the window, and one row more.
SeedLengths == {HistoryWindow - 1, HistoryWindow, HistoryWindow + 1}

\* A conversation of n rows with the operator's number as the pipeline
\* leaves it: incoming messages and their automated replies in turn, the
\* contact committed at 1 and row k at k + 1.
SeedLog(n) ==
  [k \in 1..n |->
     [id |-> k, contact_id |-> 1, phone_number |-> "+1234567890",
      message_text |-> IF k % 2 = 1 THEN "hello there" ELSE GeneratedText,
      direction |-> IF k % 2 = 1 THEN "incoming" ELSE "outgoing",
      timestamp |-> CommitTimestamp(k + 1),
      is_auto_reply |-> (k % 2 = 0)]]

\* The server after a long conversation with one number.
WindowInit ==
  /\ \E r \in {"unknown", "friend"} :
       contacts = <<[id |-> 1, phone_number |-> "+1234567890", name |-> None,
                     relationship |-> r, trust_level |-> 0,
                     created_at |-> 1, updated_at |-> 1]>>
  /\ \E n \in SeedLengths : messages = SeedLog(n) /\ now = n + 2
  /\ send_sms_callback = "configured"
  /\ tasks = <<>>
  /\ sent = <<>>
  /\ manual = <<>>
  /\ puts = <<>>
  /\ convs = <<>>

\* Further inbound messages of that number and of another one.
WindowNext ==
  \/ \E p \in Phones, b \in InboundTexts :
       Len(tasks) < MaxWindowMessages /\ sms_webhook(p, b)
  \/ \E t \in 1..MaxWindowMessages : process_incoming_sms(t)
  \/ \E t \in 1..MaxWindowMessages, o \in GeneratorOutcomes, r \in BOOLEAN :
       generate_response_returns(t, o, r)
  \/ \E t \in 1..MaxWindowMessages, o \in ClassifierOutcomes :
       classify_relationship_returns(t, o)

WindowSpec == WindowInit /\ [][WindowNext]_vars

\* ------------------------------------------------------------------ claims
Started(t) == tasks[t].pc # "scheduled"

\* The primary path of a unit of work is over (REPLIED, DEFERRED, or ended by
\* the except branch): only the enrichment step may remain.
PrimaryOver(t) == tasks[t].pc \in {"classifying", "hung_classifying", "done"}

\* Between RECEIVED and the terminal state: suspended in the generator call.
InPrimary(t) == tasks[t].pc \in {"generating", "hung_generating"}

\* C1: while a message of a phone number is between RECEIVED and its terminal
\* state, no other message of the same number takes a pipeline step
\* (processing for one number is mutually exclusive from start to finish).
C1_MutualExclusion ==
  [][\A t1, t2 \in DOMAIN tasks :
       (/\ t1 # t2
        /\ tasks[t1].from_number = tasks[t2].from_number
        /\ InPrimary(t1))
       => tasks'[t2].pc = tasks[t2].pc]_vars

\* C2: when M1 was submitted before M2 by the same number, every history
\* window of that number, reversed to chronological order, lists M1's
\* incoming row before M2's; M2 is never persisted without M1.
C2_ArrivalOrder ==
  \A t1, t2 \in DOMAIN tasks :
    (/\ t1 < t2
     /\ tasks[t1].from_number = tasks[t2].from_number
     /\ Started(t2))
    => /\ Started(t1)
       /\ \A n \in 0..Len(messages) :
            LET h == Reverse(get_conversation_history(messages, tasks[t1].from_number, n))
            IN  \A i, j \in DOMAIN h :
                  (h[i].id = tasks[t1].message_id /\ h[j].id = tasks[t2].message_id)
                  => /\ i < j
                     /\ h[i].message_text = tasks[t1].body
                     /\ h[j].message_text = tasks[t2].body

\* Two messages of one number in flight at once (M1 still suspended in the
\* generator when M2 has been persisted), both in the history.
C2_Witness ==
  \E t1, t2 \in DOMAIN tasks :
    /\ t1 < t2
    /\ tasks[t1].from_number = tasks[t2].from_number
    /\ tasks[t1].pc = "generating"
    /\ Started(t2)
    /\ LET h == get_conversation_history(messages, tasks[t1].from_number, HistoryWindow)
       IN  /\ \E i \in DOMAIN h : h[i].id = tasks[t1].message_id
           /\ \E j \in DOMAIN h : h[j].id = tasks[t2].message_id

\* Bodies of the outgoing rows of a number, in log order.
OutgoingBodies(ms, phone_number) ==
  LET rows == SelectSeq(ms, LAMBDA row : /\ row.phone_number = phone_number
                                         /\ row.direction = "outgoing")
  IN  [i \in 1..Len(rows) |-> rows[i].message_text]

\* Bodies the delivery callback accepted for a number, in invocation order.
DeliveredBodies(snt, phone_number) ==
  LET calls == SelectSeq(snt, LAMBDA call : /\ call.to_number = phone_number
                                           /\ ~call.raised)
  IN  [i \in 1..Len(calls) |-> calls[i].body]

\* C3: for each phone number the outgoing rows of the log (manual sends and
\* automated replies) are, in log order, the messages the delivery callback
\* was invoked for and accepted, in invocation order.
C3_DeliveryOrder ==
  \A p \in Phones : OutgoingBodies(messages, p) = DeliveredBodies(sent, p)

\* A manual send and an automated reply for the same number, both delivered
\* and logged, while the two calls overlapped (the manual send ran while the
\* pipeline was suspended in the generator, or the reverse order).
C3_Witness ==
  \E p \in Phones :
    /\ Len(OutgoingBodies(messages, p)) >= 2
    /\ \E i, j \in DOMAIN messages :
         /\ messages[i].phone_number = p /\ messages[j].phone_number = p
         /\ messages[i].direction = "outgoing" /\ messages[j].direction = "outgoing"
         /\ messages[i].is_auto_reply /\ ~messages[j].is_auto_reply
    /\ \E t \in DOMAIN tasks, k \in DOMAIN manual :
         /\ tasks[t].from_number = p
         /\ manual[k].result.success
         /\ tasks[t].message_id < manual[k].result.message_id
         /\ \E i \in DOMAIN messages :
              /\ messages[i].is_auto_reply
              /\ messages[i].phone_number = p
              /\ messages[i].id > manual[k].result.message_id

\* C4: every inbound message whose incoming row was persisted eventually
\* ends its primary path (REPLIED or DEFERRED), also when the generator call
\* never returns.
C4_EventuallyTerminal ==
  \A t \in 1..MaxRequests :
    (t \in DOMAIN tasks /\ Started(t)) ~> (t \in DOMAIN tasks /\ PrimaryOver(t))

\* C5: the decision is false for every text when the contact has trust_level
\* 0 and relationship 'unknown' (as created by get_or_create_contact).
C5_UnknownSenderWithheld ==
  \A t \in DOMAIN tasks :
    (/\ Started(t)
     /\ tasks[t].contact.trust_level = 0
     /\ tasks[t].contact.relationship = "unknown")
    => ~tasks[t].should_reply

\* C6: the first step of a message from a number never seen before creates
\* the contact with trust_level 0 and relationship unknown, persists the
\* incoming row and ends DEFERRED: no generator call, no delivery, no
\* outgoing row, auto_reply_sent false.
C6_NewNumberDeferred ==
  [][\A t \in DOMAIN tasks :
       (/\ tasks[t].pc = "scheduled"
        /\ tasks'[t].pc # "scheduled"
        /\ ~HasContact(contacts, tasks[t].from_number))
       => /\ \E i \in DOMAIN contacts' :
               /\ contacts'[i].phone_number = tasks[t].from_number
               /\ contacts'[i].trust_level = 0
               /\ contacts'[i].relationship = "unknown"
          /\ messages' = Append(messages, messages'[Len(messages')])
          /\ messages'[Len(messages')].direction = "incoming"
          /\ tasks'[t].pc = "done"
          /\ ~tasks'[t].should_reply
          /\ ~tasks'[t].result.auto_reply_sent
          /\ sent' = sent]_vars

\* C7: the enrichment step never changes a stored relationship that differs
\* from 'unknown' at the moment of the write.
C7_EnricherNeverOverwrites ==
  [][\A t \in DOMAIN tasks :
       (tasks[t].pc = "classifying" /\ tasks'[t].pc = "done")
       => \A i \in DOMAIN contacts :
            contacts[i].relationship # "unknown"
            => contacts'[i].relationship = contacts[i].relationship]_vars

\* C8: the contact store never holds two contacts with the same phone
\* number, and no step removes a contact or changes its id or number.
C8_OneContactPerPhone ==
  [][/\ \A i, j \in DOMAIN contacts' :
          contacts'[i].phone_number = contacts'[j].phone_number => i = j
     /\ \A i \in DOMAIN contacts :
          \E j \in DOMAIN contacts' :
            /\ contacts'[j].id = contacts[i].id
            /\ contacts'[j].phone_number = contacts[i].phone_number]_vars

\* Both numbers have a contact, and the operator's number has been referred
\* to by inbound processing, a manual send, a query or an update at least
\* twice.
C8_Witness ==
  /\ \A p \in Phones : HasContact(contacts, p)
  /\ \E p \in OperatorPhones :
       Cardinality({t \in DOMAIN tasks : Started(t) /\ tasks[t].from_number = p})
         + Len(manual) + Len(convs) + Len(puts) >= 2

\* What the calls of get_or_create_contact have returned: <<number, id>> of
\* every started pipeline, successful manual send and conversation query.
GetOrCreateReturns ==
  {<<tasks[t].from_number, tasks[t].contact.id>> : t \in {u \in DOMAIN tasks : Started(u)}}
  \cup {<<manual[k].call.to_number, manual[k].result.contact_id>> :
          k \in {m \in DOMAIN manual : manual[m].result.success}}
  \cup {<<convs[k].phone_number, convs[k].result.contact.id>> : k \in DOMAIN convs}

\* C9: any two calls of get_or_create_contact with the same phone number
\* return the same contact id, which is the id of the stored row.
C9_SameContactId ==
  \A r \in GetOrCreateReturns :
    /\ \A q \in GetOrCreateReturns : q[1] = r[1] => q[2] = r[2]
    /\ \E i \in DOMAIN contacts :
         contacts[i].phone_number = r[1] /\ contacts[i].id = r[2]

\* Three calls for the same number have returned, one of them while an
\* earlier caller was still suspended in its pipeline.
C9_Witness ==
  \E p \in Phones :
    /\ Cardinality({t \in DOMAIN tasks : Started(t) /\ tasks[t].from_number = p}) >= 2
    /\ \E t \in DOMAIN tasks : tasks[t].from_number = p /\ tasks[t].pc = "generating"
    /\ \E k \in DOMAIN convs : convs[k].phone_number = p
    /\ Len(contacts) >= 1

\* C10: a contact update for a number that has no contact fails with
\* NotFound and leaves the store unchanged.
C10_UpdateMissingNotFound ==
  [][(/\ Len(puts') = Len(puts) + 1
      /\ ~HasContact(contacts, puts'[Len(puts')].phone_number))
     => /\ puts'[Len(puts')].status = "not_found"
        /\ contacts' = contacts]_vars

\* C11: every row a step appends gets its id and timestamp at commit time
\* (the timestamp is a reading of the store's clock not earlier than the
\* start of the step, never the timestamp IncomingSMS was constructed
\* with), and both are strictly greater than those of every row committed
\* before for the same contact.
C11_CommitOrder ==
  [][\A k \in DOMAIN messages' :
       k > Len(messages)
       => /\ messages'[k].id = k
          /\ messages'[k].timestamp >= now
          /\ \A t \in DOMAIN tasks' :
               tasks'[t].message_id = k
               => messages'[k].timestamp # tasks'[t].timestamp
          /\ \A j \in 1..(k - 1) :
               messages'[j].contact_id = messages'[k].contact_id
               => /\ messages'[j] = messages[j]
                  /\ messages'[j].id < messages'[k].id
                  /\ messages'[j].timestamp < messages'[k].timestamp]_vars

\* A contact with an incoming row, its automated reply and a later incoming
\* row whose IncomingSMS was constructed before the first two were committed.
C11_Witness ==
  \E i, j, k \in DOMAIN messages :
    /\ i < j /\ j < k
    /\ messages[i].contact_id = messages[k].contact_id
    /\ messages[j].contact_id = messages[k].contact_id
    /\ messages[j].direction = "outgoing"
    /\ \E t \in DOMAIN tasks :
         tasks[t].message_id = k /\ tasks[t].timestamp < messages[i].timestamp

\* The rows of a number in insertion (commit) order.
CommittedFor(p) == SelectSeq(messages, LAMBDA row : row.phone_number = p)

\* C12: history(p, N) returns exactly min(N, number of rows of p) rows, all
\* of p, the most recently committed ones, latest first; reversed, they are
\* the last rows of p in insertion order.
C12_HistoryWindow ==
  \A p \in Phones :
    \A all \in {CommittedFor(p)} :
      \A N \in 0..(Len(all) + 1) :
        \A h \in {get_conversation_history(messages, p, N)} :
          /\ Len(h) = IF N < Len(all) THEN N ELSE Len(all)
          /\ \A i \in DOMAIN h : h[i].phone_number = p
          /\ Reverse(h) = SubSeq(all, Len(all) - Len(h) + 1, Len(all))

\* A number with three rows (so that windows 1 and 2 cut the history) while
\* the other number has rows of its own, committed in between.
C12_Witness ==
  \E p, q \in Phones :
    /\ p # q
    /\ Len(CommittedFor(p)) >= 3
    /\ \E i, j, k \in DOMAIN messages :
         /\ i < j /\ j < k
         /\ messages[i].phone_number = p
         /\ messages[j].phone_number = q
         /\ messages[k].phone_number = p

\* C13: recent_conversations(limit) returns min(limit, numbers with rows)
\* summaries, one per phone number, each with the text and timestamp of the
\* number's latest row and message_count equal to the number of its rows,
\* latest conversation first; a number left out by the limit is not more
\* recent than a listed one.
C13_RecentConversations ==
  \A limit \in {1, DashboardLimit} :
    \A r \in {get_recent_conversations(messages, contacts, limit)} :
      \A numbers \in {{p \in Phones : Len(CommittedFor(p)) > 0}} :
        /\ Len(r) = IF limit < Cardinality(numbers) THEN limit ELSE Cardinality(numbers)
        /\ \A i, j \in DOMAIN r : r[i].phone_number = r[j].phone_number => i = j
        /\ \A i \in DOMAIN r :
             \A all \in {CommittedFor(r[i].phone_number)} :
               /\ Len(all) > 0
               /\ r[i].last_message = all[Len(all)].message_text
               /\ r[i].timestamp = all[Len(all)].timestamp
               /\ r[i].message_count = Len(all)
        /\ \A i, j \in DOMAIN r : i < j => r[i].timestamp >= r[j].timestamp
        /\ \A p \in numbers :
             (\A i \in DOMAIN r : r[i].phone_number # p)
             => \A i \in DOMAIN r :
                  r[i].timestamp >= CommittedFor(p)[Len(CommittedFor(p))].timestamp

\* Both numbers have rows, one of them at least two, and the number whose
\* first row is older holds the latest row (the order of the summaries is
\* not the order of first contact).
C13_Witness ==
  \E p, q \in Phones :
    /\ p # q
    /\ Len(CommittedFor(p)) >= 2
    /\ Len(CommittedFor(q)) >= 1
    /\ CommittedFor(p)[1].timestamp < CommittedFor(q)[1].timestamp
    /\ get_recent_conversations(messages, contacts, DashboardLimit)[1].phone_number = p
    /\ Len(get_recent_conversations(messages, contacts, 1)) = 1

\* C14: once a pipeline run has evaluated the decision policy, its incoming
\* message is a row of the log (it is already part of the history the
\* policy was handed), and the row stays there whatever happens later:
\* generator error, failing delivery, enrichment error.
C14_IncomingPersistedFirst ==
  \A t \in DOMAIN tasks :
    Started(t)
    => /\ tasks[t].message_id \in DOMAIN messages
       /\ messages[tasks[t].message_id].direction = "incoming"
       /\ messages[tasks[t].message_id].phone_number = tasks[t].from_number
       /\ messages[tasks[t].message_id].message_text = tasks[t].body
       /\ \E i \in DOMAIN tasks[t].conversation_history :
            tasks[t].conversation_history[i] = messages[tasks[t].message_id]

\* A run that ended in the except branch because the delivery callback
\* raised, after a later message of the same number had been processed.
C14_Witness ==
  \E t, u \in DOMAIN tasks :
    /\ t < u
    /\ tasks[t].from_number = tasks[u].from_number
    /\ tasks[t].pc = "done" /\ tasks[u].pc = "done"
    /\ "error" \in DOMAIN tasks[t].result
    /\ tasks[t].message_id \in DOMAIN messages

\* C15: when the generator call of an eligible message raises or yields no
\* text and a delivery callback is configured, the pipeline invokes the
\* callback once with the canned text for the sender; when the callback
\* accepts it, exactly one outgoing row with the canned text and
\* is_auto_reply = TRUE is appended and the result reports it; in every case
\* the run goes on to return a result (it never raises).
C15_CannedFallback ==
  [][\A t \in DOMAIN tasks, o \in {"empty", "error"}, r \in BOOLEAN :
       (send_sms_callback # None /\ generate_response_returns(t, o, r))
       => /\ sent' = Append(sent, [to_number |-> tasks[t].from_number,
                                   body |-> CannedText, raised |-> r])
          /\ tasks'[t].pc \in {"classifying", "done"}
          /\ "auto_reply_sent" \in DOMAIN tasks'[t].result
          /\ ~r => /\ Len(messages') = Len(messages) + 1
                    /\ SubSeq(messages', 1, Len(messages)) = messages
                    /\ messages'[Len(messages')].message_text = CannedText
                    /\ messages'[Len(messages')].phone_number = tasks[t].from_number
                    /\ messages'[Len(messages')].direction = "outgoing"
                    /\ messages'[Len(messages')].is_auto_reply
                    /\ tasks'[t].result.auto_reply_sent
                    /\ tasks'[t].result.response_text = CannedText]_vars

\* The canned text has been delivered and logged as an automated reply.
C15_Witness ==
  \E t \in DOMAIN tasks :
    /\ tasks[t].pc = "done"
    /\ tasks[t].response_text = CannedText
    /\ "response_text" \in DOMAIN tasks[t].result
    /\ tasks[t].result.auto_reply_sent
    /\ \E i \in DOMAIN messages :
         /\ messages[i].message_text = CannedText
         /\ messages[i].is_auto_reply
         /\ messages[i].phone_number = tasks[t].from_number
    /\ \E k \in DOMAIN sent : sent[k].body = CannedText /\ ~sent[k].raised

\* C16: a step of a pipeline run whose decision is false never enters the
\* generator call, never invokes the delivery callback and appends no
\* outgoing row; its result reports no reply.
C16_NoReplyWhenWithheld ==
  [][\A t \in DOMAIN tasks :
       (/\ tasks'[t] # tasks[t]
        /\ tasks'[t].pc # "scheduled"
        /\ ~tasks'[t].should_reply)
       => /\ tasks'[t].pc \in {"classifying", "done"}
          /\ tasks'[t].response_text = None
          /\ ~tasks'[t].result.auto_reply_sent
          /\ tasks'[t].result.response_text = None
          /\ sent' = sent
          /\ \A k \in DOMAIN messages' :
               k > Len(messages) => messages'[k].direction = "incoming"]_vars

\* A withheld message ("Hi") has been processed to its end for a number
\* that also got an automated reply to another message.
C16_Witness ==
  \E t, u \in DOMAIN tasks :
    /\ tasks[t].from_number = tasks[u].from_number
    /\ tasks[t].pc = "done" /\ ~tasks[t].should_reply
    /\ tasks[u].pc = "done" /\ tasks[u].should_reply
    /\ "response_text" \in DOMAIN tasks[u].result
    /\ tasks[u].result.auto_reply_sent

\* C17: when the generator of an eligible message returns the text T and a
\* delivery callback is configured (and accepts), that step invokes the
\* callback once, with T for the sender's number, and appends one outgoing
\* row with text T and is_auto_reply = TRUE; no later step of the same run
\* delivers or appends anything.
C17_ReplyDeliveredOnce ==
  [][\A t \in DOMAIN tasks :
       /\ (send_sms_callback # None /\ generate_response_returns(t, "text", FALSE))
          => /\ sent' = Append(sent, [to_number |-> tasks[t].from_number,
                                      body |-> GeneratedText, raised |-> FALSE])
             /\ messages' = Append(messages,
                              [id |-> Len(messages) + 1,
                               contact_id |-> tasks[t].contact.id,
                               phone_number |-> tasks[t].from_number,
                               message_text |-> GeneratedText,
                               direction |-> "outgoing",
                               timestamp |-> messages'[Len(messages')].timestamp,
                               is_auto_reply |-> TRUE])
             /\ tasks'[t].result.auto_reply_sent
             /\ tasks'[t].result.response_text = GeneratedText
       /\ (tasks[t].pc \in {"classifying", "done"} /\ tasks'[t] # tasks[t])
          => (sent' = sent /\ messages' = messages)]_vars

\* A contact with trust_level 2 got the generated text as automated reply.
C17_Witness ==
  \E t \in DOMAIN tasks :
    /\ tasks[t].pc = "done"
    /\ tasks[t].contact.trust_level = 2
    /\ tasks[t].contact.relationship = "family"
    /\ "response_text" \in DOMAIN tasks[t].result
    /\ tasks[t].result.auto_reply_sent
    /\ tasks[t].result.response_text = GeneratedText
    /\ \E k \in DOMAIN sent :
         sent[k] = [to_number |-> tasks[t].from_number, body |-> GeneratedText,
                    raised |-> FALSE]

\* The unknown-sender rule as the decision contract words it.
UnknownSender(contact) ==
  contact.trust_level = 0 /\ contact.relationship = "unknown"

\* C18: for every contact the unknown-sender rule does not match and every
\* text, the decision is true exactly when the trimmed text has at least 3
\* characters and the lower-cased text contains no urgent keyword and no
\* sensitive keyword.
C18_DecisionRules ==
  \A t \in DOMAIN tasks :
    (Started(t) /\ ~UnknownSender(tasks[t].contact))
    => (tasks[t].should_reply
        <=> /\ Len(Strip(Chars(tasks[t].body))) >= MinTextLen
            /\ \A k \in DOMAIN urgent_keywords :
                 ~Contains(Lower(Chars(tasks[t].body)), urgent_keywords[k])
            /\ \A k \in DOMAIN sensitive_keywords :
                 ~Contains(Lower(Chars(tasks[t].body)), sensitive_keywords[k]))

\* "see you soon" from a trust_level 2 contact is answered, and a padded
\* two-letter text of the same contact is not.
C18_Witness ==
  \E t, u \in DOMAIN tasks :
    /\ Started(t) /\ Started(u)
    /\ tasks[t].contact.trust_level = 2
    /\ tasks[t].body = "see you soon" /\ tasks[t].should_reply
    /\ tasks[u].body = " ok " /\ ~tasks[u].should_reply

C20_EnrichmentGuarded ==
  [][\A t \in DOMAIN tasks :
       /\ (tasks[t].pc # "classifying" /\ tasks'[t].pc = "classifying")
          => /\ tasks'[t].contact.relationship = "unknown"
             /\ Len(tasks'[t].conversation_history) >= EnrichMinHistory
       /\ (tasks[t].pc = "classifying" /\ tasks'[t].pc = "done")
          => /\ Len(contacts') = Len(contacts)
             /\ \A i \in DOMAIN contacts :
                  /\ contacts'[i].id = contacts[i].id
                  /\ contacts'[i].phone_number = contacts[i].phone_number
                  /\ contacts'[i].name = contacts[i].name
                  /\ contacts'[i].trust_level = contacts[i].trust_level
                  /\ contacts'[i] # contacts[i]
                     => /\ contacts[i].phone_number = tasks[t].from_number
                        /\ contacts'[i].relationship \in {"family", "friend", "work"}]_vars

\* The enrichment step has stored 'friend' for a sender whose run had fetched
\* an unknown contact and a history of at least 3 messages.
C20_Witness ==
  \E i \in DOMAIN contacts, t \in DOMAIN tasks :
    /\ contacts[i].relationship = "friend" /\ contacts[i].trust_level = 0
    /\ contacts[i].phone_number = tasks[t].from_number
    /\ tasks[t].pc = "done"
    /\ tasks[t].contact.relationship = "unknown"
    /\ Len(tasks[t].conversation_history) >= EnrichMinHistory

\* C21: the enrichment step, however it ends (label stored, classifier
\* error, malformed or 'unknown' label, failing contact update), leaves the
\* result of the run, the message log and the deliveries as they were; and
\* a run that has left the classifier call never enters it again.
C21_EnrichmentSwallowed ==
  [][\A t \in DOMAIN tasks :
       /\ (tasks[t].pc = "classifying" /\ tasks'[t].pc # "classifying")
          => /\ tasks'[t].pc = "done"
             /\ tasks'[t].result = tasks[t].result
             /\ "should_reply" \in DOMAIN tasks'[t].result
             /\ messages' = messages
             /\ sent' = sent
       /\ tasks[t].pc = "done" => tasks'[t] = tasks[t]]_vars

\* A run whose contact update failed has returned the result of its reply,
\* with the contact still unknown.
C21_Witness ==
  \E t \in DOMAIN tasks, i \in DOMAIN contacts :
    /\ tasks[t].pc = "done"
    /\ EnrichmentDue(tasks[t])
    /\ "should_reply" \in DOMAIN tasks[t].result
    /\ tasks[t].result.auto_reply_sent
    /\ contacts[i].phone_number = tasks[t].from_number
    /\ contacts[i].relationship = "unknown"

\* C22: enrichment does not hold back the completion of a run: a run whose
\* primary path is over (reply sent or withheld) returns its result to the
\* caller, even when the classifier never returns.
C22_CompletionNotBlocked ==
  \A t \in 1..MaxRequests :
    (t \in DOMAIN tasks /\ tasks[t].pc \in {"classifying", "hung_classifying"})
      ~> (t \in DOMAIN tasks /\ tasks[t].pc = "done")

C24_AppendOnly ==
  [][/\ Len(messages') >= Len(messages)
     /\ \A k \in DOMAIN messages :
          /\ messages'[k].id = messages[k].id
          /\ messages'[k].contact_id = messages[k].contact_id
          /\ messages'[k].phone_number = messages[k].phone_number
          /\ messages'[k].message_text = messages[k].message_text
          /\ messages'[k].direction = messages[k].direction
          /\ messages'[k].timestamp = messages[k].timestamp
          /\ messages'[k].is_auto_reply = messages[k].is_auto_reply
     /\ \A k \in DOMAIN messages' : messages'[k].id = k]_vars

\* The log holds an incoming row, the auto-reply to it and a manual row of
\* the same number, all written by different operations.
C24_Witness ==
  \E i, j, k \in DOMAIN messages :
    /\ i < j /\ j < k
    /\ messages[i].phone_number = messages[j].phone_number
    /\ messages[j].phone_number = messages[k].phone_number
    /\ messages[i].direction = "incoming"
    /\ messages[j].is_auto_reply
    /\ messages[k].direction = "outgoing" /\ ~messages[k].is_auto_reply

\* C25: a contact is created only by a step that processes an inbound
\* message or performs a manual send, and only for a number not yet in the
\* store; every other step, the conversation query and the dashboard query
\* among them, leaves the rows of the contact store and total_contacts as
\* they were.
C25_CreatedOnlyOnFirstReference ==
  [][\/ /\ Len(contacts') = Len(contacts)
        /\ get_stats(messages', contacts').total_contacts
             = get_stats(messages, contacts).total_contacts
     \/ /\ \/ manual' # manual
           \/ \E t \in DOMAIN tasks :
                tasks[t].pc = "scheduled" /\ tasks'[t].pc # "scheduled"
        /\ Len(contacts') = Len(contacts) + 1
        /\ ~HasContact(contacts, contacts'[Len(contacts')].phone_number)]_vars

\* The contact of a number in a table that holds it.
ContactOf(cs, phone_number) == FetchContact(cs, phone_number)

\* C26: with a delivery callback configured, a manual send of any text to
\* any number invokes the callback exactly once, whatever the contact's
\* relationship and trust level and whatever the text; when the callback
\* accepts the message the send appends exactly one row (outgoing, not an
\* auto-reply, that text, that number, that contact), after creating the
\* contact when the number was unseen; auto_replies_sent stays as it was.
C26_ManualSendBypassesPolicy ==
  [][manual' # manual =>
       LET call == manual'[Len(manual')].call
           result == manual'[Len(manual')].result
           delivered == sent'[Len(sent')]
       IN  /\ Len(manual') = Len(manual) + 1
           /\ Len(sent') = Len(sent) + 1
           /\ SubSeq(sent', 1, Len(sent)) = sent
           /\ delivered.to_number = call.to_number
           /\ delivered.body = call.message
           /\ HasContact(contacts', call.to_number)
           /\ IF HasContact(contacts, call.to_number)
              THEN contacts' = contacts
              ELSE /\ Len(contacts') = Len(contacts) + 1
                   /\ SubSeq(contacts', 1, Len(contacts)) = contacts
           /\ get_stats(messages', contacts').auto_replies_sent
                = get_stats(messages, contacts).auto_replies_sent
           /\ ~delivered.raised =>
                /\ result.success
                /\ Len(messages') = Len(messages) + 1
                /\ LET row == messages'[Len(messages')]
                   IN  /\ row.direction = "outgoing"
                       /\ ~row.is_auto_reply
                       /\ row.message_text = call.message
                       /\ row.phone_number = call.to_number
                       /\ row.contact_id = ContactOf(contacts', call.to_number).id
                       /\ row.id = result.message_id
                       /\ ContactOf(contacts', call.to_number).created_at < row.timestamp]_vars

\* An urgent and a sensitive text were sent by hand, one of them to a number
\* unseen until then, and one to a contact the policy never answers (trust 0
\* or relationship 'unknown').
C26_Witness ==
  \E a, b \in DOMAIN manual :
    /\ manual[a].call.message = "please help urgent!!"
    /\ manual[b].call.message = "my PIN?"
    /\ manual[a].result.success /\ manual[b].result.success
    /\ Len(contacts) = 2
    /\ Len(messages) = 2
    /\ UnknownSender(contacts[1])
    /\ \E k \in DOMAIN messages : messages[k].contact_id = 1
    /\ \E k \in DOMAIN messages : messages[k].contact_id = 2

\* C27: update_contact sets exactly the provided fields among name,
\* relationship and trust_level of the contact of that number, refreshes its
\* updated_at, and leaves its other fields and every other contact as they
\* were.
C27_UpdateFrame ==
  [][puts' # puts =>
       LET put == puts'[Len(puts')]
       IN  /\ Len(contacts') = Len(contacts)
           /\ \A i \in DOMAIN contacts :
                IF contacts[i].phone_number = put.phone_number
                THEN /\ \A c \in {"name", "relationship", "trust_level"} :
                          contacts'[i][c] = IF c \in DOMAIN put.updates
                                            THEN put.updates[c]
                                            ELSE contacts[i][c]
                     /\ contacts'[i].updated_at = now
                     /\ contacts'[i].updated_at > contacts[i].updated_at
                     /\ contacts'[i].id = contacts[i].id
                     /\ contacts'[i].phone_number = contacts[i].phone_number
                     /\ contacts'[i].created_at = contacts[i].created_at
                ELSE contacts'[i] = contacts[i]]_vars

\* C28: runs of different phone numbers do not block each other.  While the
\* run of one number is suspended in the generator call (returning or not),
\* the run of another number can take its steps: it can start as soon as
\* the runs scheduled before it have started, and it can resume from its own
\* generator call and from its classifier call; and a step of one run
\* leaves the frame of every other run as it was (only the two stores are
\* shared).
C28_NoCrossPhoneBlocking ==
  [][\A a, b \in DOMAIN tasks :
       (a # b /\ tasks[a].from_number # tasks[b].from_number /\ InPrimary(a))
       => /\ (tasks[b].pc = "scheduled"
               /\ \A u \in 1..(b - 1) : tasks[u].pc # "scheduled")
              => ENABLED process_incoming_sms(b)
          /\ tasks[b].pc = "generating"
              => ENABLED generate_response_returns(b, "text", FALSE)
          /\ tasks[b].pc = "classifying"
              => ENABLED classify_relationship_returns(b, "Friend")
          /\ tasks'[b] # tasks[b] => tasks'[a] = tasks[a]]_vars

\* The run of one number is stuck in a generator call that never returns
\* and the run of another number, started after it, has replied.
C28_Witness ==
  \E a, b \in DOMAIN tasks :
    /\ a < b
    /\ tasks[a].from_number # tasks[b].from_number
    /\ tasks[a].pc = "hung_generating"
    /\ tasks[b].pc = "done"
    /\ "auto_reply_sent" \in DOMAIN tasks[b].result
    /\ tasks[b].result.auto_reply_sent

\* C29: when the contact lookup or the write of the incoming message fails,
\* the run ends there: the caller gets an error outcome with
\* auto_reply_sent = false and no decision, nothing is generated, delivered
\* or appended to the log, the run never reaches the generator or the
\* classifier, and it takes no further step.
C29_PersistenceFailureAborts ==
  [][\A t \in DOMAIN tasks :
       /\ \A c \in StoreCalls :
            process_incoming_sms_fails(t, c)
            => /\ tasks'[t].pc = "done"
               /\ tasks'[t].message_id = 0
               /\ DOMAIN tasks'[t].result = {"error", "auto_reply_sent"}
               /\ ~tasks'[t].result.auto_reply_sent
               /\ ~tasks'[t].should_reply
               /\ tasks'[t].response_text = None
               /\ messages' = messages
               /\ sent' = sent
       /\ (Started(t) /\ tasks[t].message_id = 0)
            => /\ tasks[t].pc = "done"
               /\ ~tasks[t].result.auto_reply_sent
               /\ tasks'[t] = tasks[t]]_vars

\* A run whose incoming write failed after its contact had been created:
\* the contact is in the store, the log has no row of that number, and the
\* run has returned the error outcome.
C29_Witness ==
  \E t \in DOMAIN tasks :
    /\ tasks[t].pc = "done"
    /\ tasks[t].message_id = 0
    /\ "error" \in DOMAIN tasks[t].result
    /\ HasContact(contacts, tasks[t].from_number)
    /\ tasks[t].contact.id # 0
    /\ \A k \in DOMAIN messages : messages[k].phone_number # tasks[t].from_number
    /\ sent = <<>>

\* C30: a run whose delivery callback raises invokes the callback once and
\* no more, returns a result to its caller, and carries on: the result
\* still reports the decision (should_reply) and the enrichment step still
\* runs when it is due.
C30_DeliveryFailureContained ==
  [][\A t \in DOMAIN tasks :
       (/\ tasks[t].pc = "generating"
        /\ tasks'[t].pc # "generating"
        /\ Len(sent') > Len(sent)
        /\ sent'[Len(sent')].raised)
       => /\ Len(sent') = Len(sent) + 1
          /\ tasks'[t].pc \in {"classifying", "done"}
          /\ "should_reply" \in DOMAIN tasks'[t].result
          /\ tasks'[t].result.should_reply
          /\ EnrichmentDue(tasks'[t]) => tasks'[t].pc = "classifying"]_vars

\* A run that ended in failure: the except branch returned the error
\* outcome (store or delivery error), or the generator failed and the canned
\* text was used.
Failed(t) ==
  /\ tasks[t].pc \in {"classifying", "done"}
  /\ \/ "error" \in DOMAIN tasks[t].result
     \/ tasks[t].response_text = CannedText

\* C31: a run that ended in failure for a phone number holds nothing back.
\* Every other run of that number can take its next step at each stage
\* (start once the runs scheduled before it have started, resume from the
\* generator call, resume from the classifier call), and a manual send to
\* that number can be made.
C31_FailureReleases ==
  \A a \in DOMAIN tasks :
    Failed(a) =>
      /\ \A b \in DOMAIN tasks :
           (b # a /\ tasks[b].from_number = tasks[a].from_number) =>
             /\ (tasks[b].pc = "scheduled"
                   /\ \A u \in 1..(b - 1) : tasks[u].pc # "scheduled")
                  => ENABLED process_incoming_sms(b)
             /\ tasks[b].pc = "generating"
                  => ENABLED generate_response_returns(b, "text", FALSE)
             /\ tasks[b].pc = "classifying"
                  => ENABLED classify_relationship_returns(b, "Friend")
      /\ Requests < MaxRequests
           => ENABLED send_manual_sms(tasks[a].from_number, "manual message", FALSE)

\* After a run of a number failed in the store, a later message of that
\* number was processed and answered, and a manual send to it succeeded.
C31_Witness ==
  \E a, b \in DOMAIN tasks :
    /\ a < b
    /\ tasks[a].from_number = tasks[b].from_number
    /\ tasks[a].pc = "done" /\ "error" \in DOMAIN tasks[a].result
    /\ tasks[b].pc = "done" /\ "should_reply" \in DOMAIN tasks[b].result
    /\ tasks[b].message_id # 0
    /\ manual # <<>>
    /\ manual[Len(manual)].call.to_number = tasks[a].from_number
    /\ manual[Len(manual)].result.success

\* C32: intake does not wait for processing.  A webhook request with sender
\* and body is accepted whatever the scheduled runs are doing, in particular
\* while an earlier run is suspended in the generator call; accepting it
\* schedules exactly one unit of work for that sender and body and changes
\* nothing else; a request with an empty sender or body schedules nothing
\* and changes no state; and units of work come from nowhere else and are
\* never dropped.
C32_IntakeNeverWaits ==
  [][/\ \A p \in Phones, b \in InboundTexts :
          Requests < MaxRequests => ENABLED (sms_webhook(p, b) /\ Len(tasks') = Len(tasks) + 1)
     /\ \A p \in WebhookSenders, b \in WebhookBodies :
          sms_webhook(p, b) =>
            IF p = "" \/ b = ""
            THEN UNCHANGED vars
            ELSE /\ Len(tasks') = Len(tasks) + 1
                 /\ SubSeq(tasks', 1, Len(tasks)) = tasks
                 /\ tasks'[Len(tasks')].from_number = p
                 /\ tasks'[Len(tasks')].body = b
                 /\ tasks'[Len(tasks')].pc = "scheduled"
                 /\ UNCHANGED <<contacts, messages, now, sent, manual, puts, convs>>
     /\ Len(tasks') >= Len(tasks)
     /\ Len(tasks') > Len(tasks) =>
          /\ Len(tasks') = Len(tasks) + 1
          /\ tasks'[Len(tasks')].pc = "scheduled"
          /\ UNCHANGED <<contacts, messages, now, sent, manual, puts, convs>>
     /\ \A t \in DOMAIN tasks :
          /\ tasks'[t].from_number = tasks[t].from_number
          /\ tasks'[t].body = tasks[t].body
          /\ tasks'[t].pc = "scheduled" => tasks[t].pc = "scheduled"]_vars

\* Message 2 was accepted and scheduled while the run of message 1 was
\* suspended in the generator call.
C32_Witness ==
  /\ Len(tasks) >= 2
  /\ InPrimary(1)
  /\ tasks[1].message_id = 1
  /\ tasks[2].pc = "scheduled"
  /\ Len(messages) = 1

\* C33: the result of a run agrees with the log.  auto_reply_sent is true
\* only with should_reply true; it becomes true exactly in the step that
\* invokes the delivery callback (accepted) and appends one outgoing
\* is_auto_reply row for the sender, and response_text is the text of that
\* row; no other step appends an is_auto_reply row; and the result of a run
\* that has returned never changes.
C33_ResultMatchesLog ==
  [][/\ \A t \in DOMAIN tasks :
          LET r == tasks'[t].result
              sentNow == "auto_reply_sent" \in DOMAIN r /\ r.auto_reply_sent
              sentBefore == /\ "auto_reply_sent" \in DOMAIN tasks[t].result
                            /\ tasks[t].result.auto_reply_sent
              row == messages'[Len(messages')]
              replied == /\ Len(messages') = Len(messages) + 1
                         /\ row.is_auto_reply
                         /\ tasks[t].pc = "generating"
                         /\ tasks'[t].pc # "generating"
          IN  /\ sentNow => ("should_reply" \in DOMAIN r /\ r.should_reply)
              /\ (sentNow /\ ~sentBefore) <=> replied
              /\ replied =>
                   /\ row.direction = "outgoing"
                   /\ row.phone_number = tasks[t].from_number
                   /\ row.contact_id = r.contact_id
                   /\ row.message_text = r.response_text
                   /\ Len(sent') = Len(sent) + 1
                   /\ sent'[Len(sent')] = [to_number |-> tasks[t].from_number,
                                            body |-> r.response_text, raised |-> FALSE]
              /\ sentBefore => r = tasks[t].result
              /\ tasks[t].pc = "done" => r = tasks[t].result
     /\ (Len(messages') > Len(messages) /\ messages'[Len(messages')].is_auto_reply)
          => \E u \in DOMAIN tasks :
               tasks[u].pc = "generating" /\ tasks'[u].pc # "generating"]_vars

\* Of two completed runs of one number, one returned auto_reply_sent with the
\* text of its row, and the other returned a generated text without having
\* sent it (should_reply true, delivery raised or no row written).
C33_Witness ==
  \E a, b \in DOMAIN tasks :
    /\ a # b
    /\ tasks[a].pc = "done" /\ tasks[b].pc = "done"
    /\ tasks[a].from_number = tasks[b].from_number
    /\ "should_reply" \in DOMAIN tasks[a].result
    /\ tasks[a].result.auto_reply_sent
    /\ \E k \in DOMAIN messages :
         /\ messages[k].is_auto_reply
         /\ messages[k].message_text = tasks[a].result.response_text
    /\ tasks[b].should_reply
    /\ ~tasks[b].result.auto_reply_sent
    /\ Len(SelectSeq(messages, LAMBDA m : m.is_auto_reply)) = 1

\* The number of elements of a sequence that satisfy a test.
Count(seq, Test(_)) == Len(SelectSeq(seq, Test))

\* C34: for every phone number, the automated replies in the log and the
\* deliveries of reply texts are each at most as many as the runs of that
\* number that have returned from their (single) generator call with the
\* decision to reply, and the automated replies are at most as many as the
\* incoming rows of the number.
C34_AtMostOneReplyPerMessage ==
  \A p \in Phones :
    LET autoRows == Count(messages, LAMBDA m : m.phone_number = p /\ m.is_auto_reply)
        incomingRows == Count(messages, LAMBDA m : /\ m.phone_number = p
                                                   /\ m.direction = "incoming")
        replyDeliveries == Count(sent, LAMBDA c : /\ c.to_number = p
                                                  /\ c.body \in {GeneratedText, CannedText})
        generated == Count(tasks, LAMBDA f : /\ f.from_number = p
                                             /\ f.should_reply
                                             /\ f.response_text # None)
    IN  /\ autoRows <= incomingRows
        /\ autoRows <= replyDeliveries
        /\ replyDeliveries <= generated
        /\ generated <= incomingRows

\* A number with three incoming rows, two of them answered by an automated
\* reply and one left unanswered.
C34_Witness ==
  \E p \in Phones :
    /\ Count(messages, LAMBDA m : m.phone_number = p /\ m.direction = "incoming") = 3
    /\ Count(messages, LAMBDA m : m.phone_number = p /\ m.is_auto_reply) = 2
    /\ \A t \in DOMAIN tasks : tasks[t].pc = "done"

\* C35: delivery precedes persistence.  A step appends an outgoing row
\* (automated reply or manual send) only if, in that step and before the
\* save, the delivery callback was invoked for that number and text and
\* returned without error; a step in which the callback raises appends no
\* row; and nothing is delivered and logged out of step: per number the
\* outgoing rows stay as many as the accepted deliveries.
C35_DeliveryBeforePersistence ==
  [][/\ (Len(messages') > Len(messages)
          /\ messages'[Len(messages')].direction = "outgoing")
         => /\ Len(messages') = Len(messages) + 1
            /\ Len(sent') = Len(sent) + 1
            /\ sent'[Len(sent')] =
                 [to_number |-> messages'[Len(messages')].phone_number,
                  body |-> messages'[Len(messages')].message_text,
                  raised |-> FALSE]
     /\ (Len(sent') > Len(sent) /\ sent'[Len(sent')].raised)
         => messages' = messages
     /\ \A p \in Phones :
          Len(OutgoingBodies(messages', p)) = Len(DeliveredBodies(sent', p))]_vars

\* The callback raised for an automated reply and for a manual send, leaving
\* no outgoing row, and was accepted for another message that is in the log.
C35_Witness ==
  /\ \E i, j \in DOMAIN sent :
       /\ sent[i].raised /\ sent[i].body = "manual message"
       /\ sent[j].raised /\ sent[j].body \in {GeneratedText, CannedText}
  /\ \E k \in DOMAIN sent : ~sent[k].raised
  /\ Len(SelectSeq(messages, LAMBDA m : m.direction = "outgoing")) = 1

\* C36: every is_auto_reply row is outgoing and comes after an incoming row
\* of the same phone number; every incoming row and every row of a manual
\* send has is_auto_reply false; and the contact_id of every row is the id
\* of the one contact that holds the row's phone number.
C36_RowsWellFormed ==
  \A k \in DOMAIN messages :
    LET row == messages[k]
    IN  /\ row.direction \in {"incoming", "outgoing"}
        /\ row.is_auto_reply =>
             /\ row.direction = "outgoing"
             /\ \E j \in 1..(k - 1) : /\ messages[j].phone_number = row.phone_number
                                      /\ messages[j].direction = "incoming"
        /\ row.direction = "incoming" => ~row.is_auto_reply
        /\ row.message_text \in ManualTexts => ~row.is_auto_reply
        /\ (row.direction = "outgoing" /\ ~row.is_auto_reply)
             => row.message_text \in ManualTexts
        /\ HasContact(contacts, row.phone_number)
        /\ \A i \in DOMAIN contacts :
             (contacts[i].phone_number = row.phone_number) <=> (contacts[i].id = row.contact_id)

\* Two numbers with rows of their own: one has an incoming row, its
\* automated reply and a manual row; the other has a row of another contact.
C36_Witness ==
  /\ Len(contacts) = 2
  /\ \E i, j, k, l \in DOMAIN messages :
       /\ messages[i].contact_id = 1 /\ messages[i].direction = "incoming"
       /\ messages[j].contact_id = 1 /\ messages[j].is_auto_reply
       /\ messages[k].contact_id = 1 /\ messages[k].message_text \in ManualTexts
       /\ messages[l].contact_id = 2

\* C37: the statistics equal the stored facts: total_contacts is the number
\* of contacts, total_messages the number of rows of the log,
\* auto_replies_sent the number of rows with is_auto_reply true, and that
\* number is the number of process_incoming_sms calls that have returned a
\* result with auto_reply_sent true.
C37_StatsMatchFacts ==
  LET stats == get_stats(messages, contacts)
  IN  /\ stats.total_contacts = Len(contacts)
      /\ stats.total_messages = Len(messages)
      /\ stats.auto_replies_sent = Count(messages, LAMBDA m : m.is_auto_reply)
      /\ stats.auto_replies_sent
           = Count(tasks, LAMBDA f : /\ f.pc = "done"
                                     /\ "auto_reply_sent" \in DOMAIN f.result
                                     /\ f.result.auto_reply_sent)

\* C38: with no delivery callback configured, the run of an eligible message
\* still gets its reply text from the generator and returns it in
\* response_text with auto_reply_sent false, delivering nothing and
\* appending nothing; a manual send returns success false with an error and
\* appends no message; so nothing is ever delivered and the log holds
\* incoming rows only.
C38_NoCallback ==
  [][send_sms_callback = None =>
       /\ \A t \in DOMAIN tasks :
            (tasks[t].pc = "generating" /\ tasks'[t].pc # "generating")
            => /\ tasks'[t].pc \in {"classifying", "done"}
               /\ tasks'[t].result.response_text \in {GeneratedText, CannedText}
               /\ tasks'[t].result.should_reply
               /\ ~tasks'[t].result.auto_reply_sent
               /\ messages' = messages
               /\ sent' = sent
       /\ manual' # manual
            => /\ ~manual'[Len(manual')].result.success
               /\ "error" \in DOMAIN manual'[Len(manual')].result
               /\ messages' = messages
               /\ sent' = sent
       /\ sent' = <<>>
       /\ \A k \in DOMAIN messages' : messages'[k].direction = "incoming"]_vars

\* Without a callback, a run has returned a generated text it did not send,
\* and a manual send was refused.
C38_Witness ==
  /\ send_sms_callback = None
  /\ \E t \in DOMAIN tasks :
       /\ tasks[t].pc = "done"
       /\ tasks[t].result.response_text = GeneratedText
       /\ ~tasks[t].result.auto_reply_sent
  /\ manual # <<>>
  /\ ~manual[1].result.success
  /\ Len(messages) = 1

\* C39: the history a run hands to the decision policy, the generator and
\* the enricher holds at most 10 rows, all of the sender's phone number, and
\* among them the incoming row the run has just saved (the first one, the
\* history being latest first).
C39_WindowBounded ==
  \A t \in DOMAIN tasks :
    Started(t) =>
      LET h == tasks[t].conversation_history
      IN  /\ Len(h) <= 10
          /\ Len(h) >= 1
          /\ \A i \in DOMAIN h : h[i].phone_number = tasks[t].from_number
          /\ \E i \in DOMAIN h : /\ h[i].id = tasks[t].message_id
                                  /\ h[i].direction = "incoming"
                                  /\ h[i].message_text = tasks[t].body
          /\ h[1].id = tasks[t].message_id

\* A run whose number had more than 10 rows when it fetched its history: it
\* holds exactly 10 of them, while a run of the other number holds its own.
C39_Witness ==
  \E t, u \in DOMAIN tasks :
    /\ Started(t) /\ Started(u)
    /\ tasks[t].from_number # tasks[u].from_number
    /\ Len(tasks[t].conversation_history) = 10
    /\ tasks[t].message_id >= 12
    /\ Len(tasks[u].conversation_history) = 1

====
